---- MODULE Spec2Model ----
(***************************************************************************)
(* State-machine model of llm-hub-jni.cpp: the three JNI entry points      *)
(* initLlama, generateResponse and releaseLlama of LlamaInferenceService,  *)
(* the three process-wide handles they share, and the llama.cpp / JNI      *)
(* objects they create and destroy.                                        *)
(*                                                                         *)
(* The caller serialises the entry points (no locking in the code), so one *)
(* call runs at a time: pc says where that call is.  initLlama and         *)
(* releaseLlama are one step each; generateResponse is its prologue, one   *)
(* step per loop iteration, and its epilogue.  Everything the backend or   *)
(* the JVM decides (load result, tokenizer result, decode result, sampled  *)
(* token, callback lookup and callback outcome) is chosen with \E.         *)
(***************************************************************************)
EXTENDS Integers, Sequences, FiniteSets, TLC

(* ------------------------------ bounds -------------------------------- *)

\* Heap objects (models and contexts) allocated in one behaviour.
MaxObjects == 3

\* Longest tokenized prompt the tokenizer reports.
MaxPrompt == 3

\* n_predict of generateResponse (line 119).  The code's value is 64; the
\* loop is modelled for this smaller value and every statement about it is
\* phrased in terms of n_predict.
n_predict == 2

\* cparams.n_ctx of initLlama (line 52).  The code's value is 2048; scaled
\* down so that a context fills up within a few generateResponse calls.
n_ctx == 4

\* cparams.n_batch of initLlama (line 53).  The code's value is 512; scaled
\* down so that a tokenized prompt can be longer than one batch.
n_batch == 2

(* --------------------------- program constants ------------------------ *)

nullptr == 0

\* sizeof(buf), line 141
BufSize == 128

\* the length argument of strncmp, line 146
MarkerLen == 13

(* ------------------------------- text --------------------------------- *)

\* A text is a sequence of bytes; a byte is a one-character string, and NUL
\* is the zero byte.
NUL == "NUL"

\* "<end_of_turn>", the second argument of strncmp at line 146
Marker == <<"<", "e", "n", "d", "_", "o", "f", "_", "t", "u", "r", "n", ">">>

\* What a function taking a const char* sees of a byte buffer: the bytes
\* before the first NUL.  (std::string::c_str() followed by NewStringUTF,
\* line 180; NewStringUTF(buf), line 159; strncmp's reads, line 146.)
c_str(s) ==
    LET nuls == {i \in 1..Len(s) : s[i] = NUL}
    IN  IF nuls = {} THEN s
        ELSE SubSeq(s, 1, (CHOOSE i \in nuls : \A j \in nuls : i <= j) - 1)

\* strncmp(a, b, n) on two C strings: 0 when they agree on their first n
\* bytes or both end before that, non-zero otherwise.
RECURSIVE strncmp(_, _, _)
strncmp(a, b, n) ==
    IF n = 0 THEN 0
    ELSE IF a = <<>> /\ b = <<>> THEN 0
    ELSE IF a = <<>> \/ b = <<>> THEN 1
    ELSE IF Head(a) # Head(b) THEN 1
    ELSE strncmp(Tail(a), Tail(b), n - 1)

\* The text contains the marker as a contiguous run of bytes.
Contains(text, m) ==
    \E i \in 1..Len(text) :
        i + Len(m) - 1 <= Len(text) /\ SubSeq(text, i, i + Len(m) - 1) = m

RECURSIVE Concat(_)
Concat(ss) == IF ss = <<>> THEN <<>> ELSE Head(ss) \o Concat(Tail(ss))

(* --------------------------- the vocabulary --------------------------- *)

\* The backend's vocabulary, as far as generateResponse can tell tokens
\* apart: the piece llama_token_to_piece writes for the token and whether
\* llama_vocab_is_eog holds of it.
\*   1,2  two ordinary pieces (which, one after the other, spell the marker)
\*   3  the end-of-generation token
\*   4  the end-of-turn special token, rendered because special=true
\*   5  a piece that begins with the marker and goes on
\*   6  a token with an empty piece
\*   7  the byte-fallback token <0x00>, whose piece is the single byte NUL
\*   8  a token whose piece fills a buffer of BufSize bytes exactly
\*   9  a token whose piece is one byte too long for such a buffer
Vocab ==
    <<  [piece |-> <<"<", "e", "n", "d", "_", "o", "f">>,     eog |-> FALSE],
        [piece |-> <<"_", "t", "u", "r", "n", ">">>,          eog |-> FALSE],
        [piece |-> <<>>,                                      eog |-> TRUE ],
        [piece |-> Marker,                                    eog |-> FALSE],
        [piece |-> Marker \o <<"!">>,                         eog |-> FALSE],
        [piece |-> <<>>,                                      eog |-> FALSE],
        [piece |-> <<NUL>>,                                   eog |-> FALSE],
        [piece |-> [i \in 1..BufSize |-> "x"],                eog |-> FALSE],
        [piece |-> [i \in 1..(BufSize + 1) |-> "x"],          eog |-> FALSE] >>

Tokens == 1..Len(Vocab)

llama_vocab_is_eog(tok) == Vocab[tok].eog

\* llama_token_to_piece(vocab, tok, buf, length, ...): the number of bytes
\* written, or minus the number needed when the buffer is too small.
llama_token_to_piece(tok, length) ==
    IF Len(Vocab[tok].piece) <= length
    THEN [n |-> Len(Vocab[tok].piece), buf |-> Vocab[tok].piece]
    ELSE [n |-> 0 - Len(Vocab[tok].piece), buf |-> <<>>]

(* ------------------------------- state -------------------------------- *)

VARIABLES
    g_model,        \* static llama_model * g_model          (0 = nullptr)
    g_vocab,        \* static const llama_vocab * g_vocab    (the model it belongs to)
    g_ctx,          \* static llama_context * g_ctx
    heap,           \* the llama objects allocated so far, by address
    backend,        \* process-wide backend state: "down" or "up"
    pc,             \* "idle", "loop", "after_loop", "aborted" or "crashed"
    n_prompt,       \* locals of generateResponse
    n_pos,
    batch_n,        \* batch.n_tokens
    result,         \* std::string result
    sampler_chain,  \* TRUE while a sampler chain is allocated
    pending,        \* a Java exception is pending in env
    ret,            \* what the last finished call returned
    calls,          \* backend and JNI calls made by the current / last call
    accepted,       \* pieces appended to result by the current / last call
    sunk,           \* strings handed to onNativeToken by the current / last call
    since_release,  \* a successful initLlama since start / the last releaseLlama
    last_init,      \* outcome of the most recent initLlama ("none" before any)
    first_text      \* per prompt, the text of the first generateResponse call on
                    \* it since the last initLlama / releaseLlama (kept only
                    \* under SpecGreedy)

vars == << g_model, g_vocab, g_ctx, heap, backend, pc, n_prompt, n_pos,
           batch_n, result, sampler_chain, pending, ret, calls, accepted,
           sunk, since_release, last_init, first_text >>

session == << g_model, g_vocab, g_ctx, heap, backend >>

NoRet == [op |-> "none", code |-> 0, msg |-> "", text |-> <<>>]

\* No generateResponse call has returned a text yet, on any prompt.
NoFirst == [p \in 1..MaxPrompt |-> [seen |-> FALSE, text |-> <<>>]]

\* The locals of generateResponse do not exist outside a call of it.
NoLocals ==
    /\ n_prompt' = 0
    /\ n_pos' = 0
    /\ batch_n' = 0
    /\ result' = <<>>
    /\ sampler_chain' = sampler_chain

Init ==
    /\ g_model = nullptr
    /\ g_vocab = nullptr
    /\ g_ctx = nullptr
    /\ heap = <<>>
    /\ backend = "down"
    /\ pc = "idle"
    /\ n_prompt = 0
    /\ n_pos = 0
    /\ batch_n = 0
    /\ result = <<>>
    /\ sampler_chain = FALSE
    /\ pending = FALSE
    /\ ret = NoRet
    /\ calls = <<>>
    /\ accepted = <<>>
    /\ sunk = <<>>
    /\ since_release = FALSE
    /\ last_init = "none"
    /\ first_text = NoFirst

(* ------------------------------ the heap ------------------------------ *)

\* An object's address is its index in heap.  A context records the model
\* it was created from and the number of tokens its KV cache holds.
NewModel == [kind |-> "model", live |-> TRUE, model |-> 0, kv |-> 0]
NewCtx(m) == [kind |-> "ctx", live |-> TRUE, model |-> m, kv |-> 0]

Free(h, p) == [h EXCEPT ![p].live = FALSE]

LiveModels == {p \in 1..Len(heap) : heap[p].kind = "model" /\ heap[p].live}
LiveCtxs   == {p \in 1..Len(heap) : heap[p].kind = "ctx" /\ heap[p].live}

(* ------------------------------ initLlama ----------------------------- *)

\* Lines 20-69.  load_ok and ctx_ok are the backend's answers to
\* llama_model_load_from_file and llama_init_from_model.  Nothing is looked
\* at before the handles are overwritten: a model or context the session
\* already holds stays allocated with no handle left to free it by.
initLlama(load_ok, ctx_ok) ==
    /\ pc = "idle"
    /\ Len(heap) + (IF load_ok THEN (IF ctx_ok THEN 2 ELSE 1) ELSE 0) <= MaxObjects
    /\ backend' = "up"
    /\ LET m == Len(heap) + 1
           c == Len(heap) + 2
       IN  IF ~load_ok
           THEN /\ g_model' = nullptr
                /\ UNCHANGED << g_vocab, g_ctx, heap >>
                /\ calls' = << "llama_backend_init", "llama_model_load_from_file" >>
                /\ ret' = [NoRet EXCEPT !.op = "initLlama", !.code = -1]
                /\ last_init' = "ModelLoadFailed"
                /\ UNCHANGED since_release
           ELSE IF ~ctx_ok
           THEN /\ heap' = Free(Append(heap, NewModel), m)
                /\ g_ctx' = nullptr
                /\ g_model' = nullptr
                /\ g_vocab' = nullptr
                /\ calls' = << "llama_backend_init", "llama_model_load_from_file",
                               "llama_init_from_model", "llama_model_free" >>
                /\ ret' = [NoRet EXCEPT !.op = "initLlama", !.code = -2]
                /\ last_init' = "ContextCreateFailed"
                /\ UNCHANGED since_release
           ELSE /\ heap' = Append(Append(heap, NewModel), NewCtx(m))
                /\ g_model' = m
                /\ g_vocab' = m
                /\ g_ctx' = c
                /\ calls' = << "llama_backend_init", "llama_model_load_from_file",
                               "llama_init_from_model", "llama_set_n_threads" >>
                /\ ret' = [NoRet EXCEPT !.op = "initLlama", !.code = 0]
                /\ last_init' = "Success"
                /\ since_release' = TRUE
    /\ pending' = FALSE
    /\ accepted' = <<>>
    /\ sunk' = <<>>
    /\ NoLocals
    /\ UNCHANGED pc

(* ----------------------------- releaseLlama --------------------------- *)

\* releaseLlama with the two frees in the wrong order: the model is freed
\* while its context is still allocated (lines 192-196 before 188-191).
releaseLlama_model_first ==
    /\ pc = "idle"
    /\ LET h1 == IF g_model # nullptr THEN Free(heap, g_model) ELSE heap
           h2 == IF g_ctx # nullptr THEN Free(h1, g_ctx) ELSE h1
       IN  heap' = h2
    /\ g_ctx' = nullptr
    /\ g_model' = nullptr
    /\ g_vocab' = IF g_model # nullptr THEN nullptr ELSE g_vocab
    /\ backend' = "down"
    /\ calls' = (IF g_model # nullptr THEN << "llama_model_free" >> ELSE <<>>)
                \o (IF g_ctx # nullptr THEN << "llama_free" >> ELSE <<>>)
                \o << "llama_backend_free" >>
    /\ ret' = [NoRet EXCEPT !.op = "releaseLlama"]
    /\ since_release' = FALSE
    /\ pending' = FALSE
    /\ accepted' = <<>>
    /\ sunk' = <<>>
    /\ NoLocals
    /\ UNCHANGED << pc, last_init >>

\* releaseLlama without line 189: the context handle is cleared but the
\* context is not freed, and the model it was created from is.
releaseLlama_keeps_ctx ==
    /\ pc = "idle"
    /\ heap' = IF g_model # nullptr THEN Free(heap, g_model) ELSE heap
    /\ g_ctx' = nullptr
    /\ g_model' = nullptr
    /\ g_vocab' = IF g_model # nullptr THEN nullptr ELSE g_vocab
    /\ backend' = "down"
    /\ calls' = (IF g_model # nullptr THEN << "llama_model_free" >> ELSE <<>>)
                \o << "llama_backend_free" >>
    /\ ret' = [NoRet EXCEPT !.op = "releaseLlama"]
    /\ since_release' = FALSE
    /\ pending' = FALSE
    /\ accepted' = <<>>
    /\ sunk' = <<>>
    /\ NoLocals
    /\ UNCHANGED << pc, last_init >>

\* releaseLlama without line 190: the context is freed but its handle is
\* kept.
releaseLlama_dangling_ctx ==
    /\ pc = "idle"
    /\ LET h1 == IF g_ctx # nullptr THEN Free(heap, g_ctx) ELSE heap
           h2 == IF g_model # nullptr THEN Free(h1, g_model) ELSE h1
       IN  heap' = h2
    /\ g_ctx' = g_ctx
    /\ g_model' = nullptr
    /\ g_vocab' = IF g_model # nullptr THEN nullptr ELSE g_vocab
    /\ backend' = "down"
    /\ calls' = (IF g_ctx # nullptr THEN << "llama_free" >> ELSE <<>>)
                \o (IF g_model # nullptr THEN << "llama_model_free" >> ELSE <<>>)
                \o << "llama_backend_free" >>
    /\ ret' = [NoRet EXCEPT !.op = "releaseLlama"]
    /\ since_release' = FALSE
    /\ pending' = FALSE
    /\ accepted' = <<>>
    /\ sunk' = <<>>
    /\ NoLocals
    /\ UNCHANGED << pc, last_init >>

\* Lines 184-198.
releaseLlama ==
    /\ pc = "idle"
    /\ LET h1 == IF g_ctx # nullptr THEN Free(heap, g_ctx) ELSE heap
           h2 == IF g_model # nullptr THEN Free(h1, g_model) ELSE h1
       IN  heap' = h2
    /\ g_ctx' = nullptr
    /\ g_model' = nullptr
    /\ g_vocab' = IF g_model # nullptr THEN nullptr ELSE g_vocab
    /\ backend' = "down"
    /\ calls' = (IF g_ctx # nullptr THEN << "llama_free" >> ELSE <<>>)
                \o (IF g_model # nullptr THEN << "llama_model_free" >> ELSE <<>>)
                \o << "llama_backend_free" >>
    /\ ret' = [NoRet EXCEPT !.op = "releaseLlama"]
    /\ since_release' = FALSE
    /\ pending' = FALSE
    /\ accepted' = <<>>
    /\ sunk' = <<>>
    /\ NoLocals
    /\ UNCHANGED << pc, last_init >>

(* --------------------------- generateResponse ------------------------- *)

\* The check of line 77 written with && for ||.
NotInitialized_and(ctx, vocab) == ctx = nullptr /\ vocab = nullptr

\* Line 77: the not-initialized check.
NotInitialized(ctx, vocab) == ctx = nullptr \/ vocab = nullptr

\* Lines 90-102: the two-phase tokenization fails.  probe is what the first
\* llama_tokenize call returns (minus the number of tokens needed, since no
\* buffer is passed) and fill what the second returns.
TokenizationFailed(probe, fill) == (0 - probe) <= 0 \/ fill < 0

\* The condition of line 122 written with <= for <.
LoopCond_le(pos, batch, prompt) == pos + batch <= prompt + n_predict

\* Line 122: the loop condition.
LoopCond(pos, batch, prompt) == pos + batch < prompt + n_predict

\* IsStopMarker comparing the whole fragment (strcmp in place of the
\* 13-byte strncmp of line 146).
IsStopMarker_strcmp(buf) == c_str(buf) = Marker

\* Line 146: the fragment in buf begins with the marker.
IsStopMarker(buf) == strncmp(c_str(buf), Marker, MarkerLen) = 0

\* The backend's answers to the two llama_tokenize calls for the templated
\* prompt: the probe reports 0..MaxPrompt tokens, the fill succeeds (and
\* returns that count) or fails.
Probes == (0 - MaxPrompt)..0
Fills(probe) == {-1, 0 - probe}

\* Lines 77-79: generateResponse on a session it takes as not initialized.
generate_not_initialized ==
    /\ pc = "idle"
    /\ NotInitialized(g_ctx, g_vocab)
    /\ ret' = [NoRet EXCEPT !.op = "generateResponse", !.msg = "Model not initialized"]
    /\ calls' = << "NewStringUTF" >>
    /\ pending' = FALSE
    /\ accepted' = <<>>
    /\ sunk' = <<>>
    /\ NoLocals
    /\ UNCHANGED << session, pc, since_release, last_init >>

\* generate_tokenization_failed with the sampler chain built before the
\* tokenization (lines 104-108 moved above line 90): the early return of
\* line 94 / 101 leaves it allocated.
generate_tokenization_failed_late(probe, fill) ==
    /\ pc = "idle"
    /\ ~NotInitialized(g_ctx, g_vocab)
    /\ TokenizationFailed(probe, fill)
    /\ ret' = [NoRet EXCEPT !.op = "generateResponse", !.msg = "Tokenization failed"]
    /\ calls' = << "llama_sampler_chain_init", "llama_tokenize", "NewStringUTF" >>
    /\ sampler_chain' = TRUE
    /\ pending' = FALSE
    /\ accepted' = <<>>
    /\ sunk' = <<>>
    /\ UNCHANGED << session, pc, n_prompt, n_pos, batch_n, result, since_release,
                    last_init >>

\* Lines 81-102: the prompt is templated and tokenized, and tokenization
\* fails, before any sampler is built.
generate_tokenization_failed(probe, fill) ==
    /\ pc = "idle"
    /\ ~NotInitialized(g_ctx, g_vocab)
    /\ TokenizationFailed(probe, fill)
    /\ ret' = [NoRet EXCEPT !.op = "generateResponse", !.msg = "Tokenization failed"]
    /\ calls' = IF (0 - probe) <= 0
                THEN << "llama_tokenize", "NewStringUTF" >>
                ELSE << "llama_tokenize", "llama_tokenize", "NewStringUTF" >>
    /\ pending' = FALSE
    /\ accepted' = <<>>
    /\ sunk' = <<>>
    /\ NoLocals
    /\ UNCHANGED << session, pc, since_release, last_init >>

\* Lines 81-120: tokenization succeeds, the sampler chain is built and the
\* first batch is the whole prompt.
generate_start(probe, fill) ==
    /\ pc = "idle"
    /\ ~NotInitialized(g_ctx, g_vocab)
    /\ ~TokenizationFailed(probe, fill)
    /\ n_prompt' = 0 - probe
    /\ batch_n' = 0 - probe
    /\ n_pos' = 0
    /\ result' = <<>>
    /\ sampler_chain' = TRUE
    /\ calls' = << "llama_tokenize", "llama_tokenize", "llama_sampler_chain_init" >>
    /\ ret' = NoRet
    /\ pending' = FALSE
    /\ accepted' = <<>>
    /\ sunk' = <<>>
    /\ pc' = "loop"
    /\ UNCHANGED << session, since_release, last_init >>

\* What the JVM can answer in lines 155-164.  "abort" is the runtime ending
\* the process because FindClass is called while an exception is pending
\* (checked JNI); it is possible only then.
SinkOutcomes == {"delivered", "raised", "no_class", "no_method", "abort"}

\* llama_decode (line 124) on a batch: the backend may fail it, and fails it
\* when the context has no room left for the batch.  A batch of more than
\* n_batch tokens (line 53) is never decoded: depending on the library
\* build, llama_decode returns an error or stops the process on its
\* assertion n_tokens <= n_batch.
DecodeSucceeds(rc, ctx, batch) ==
    rc = 0 /\ batch <= n_batch /\ heap[ctx].kv + batch <= n_ctx
DecodeAsserts(rc, batch) == rc = 0 /\ batch > n_batch

\* Lines 122-169: one iteration of the loop.  rc is llama_decode's answer,
\* tok the token the sampler picks, sink the JVM's part in the delivery.
loop_iteration(rc, tok, sink) ==
    /\ pc = "loop"
    /\ LoopCond(n_pos, batch_n, n_prompt)
    /\ LET piece == llama_token_to_piece(tok, BufSize)
       IN
       IF DecodeAsserts(rc, batch_n)
       THEN \* line 124: the process ends inside llama_decode
            /\ calls' = Append(calls, "llama_decode")
            /\ pc' = "crashed"
            /\ UNCHANGED << heap, n_pos, batch_n, result, accepted, sunk, pending >>
       ELSE IF ~DecodeSucceeds(rc, g_ctx, batch_n)
       THEN \* line 126: break
            /\ calls' = Append(calls, "llama_decode failed")
            /\ pc' = "after_loop"
            /\ UNCHANGED << heap, n_pos, batch_n, result, accepted, sunk, pending >>
       ELSE
       /\ heap' = [heap EXCEPT ![g_ctx].kv = @ + batch_n]
       /\ n_pos' = n_pos + batch_n
       /\ IF llama_vocab_is_eog(tok)
          THEN \* line 138: break
               /\ calls' = calls \o << "llama_decode", "llama_sampler_sample" >>
               /\ pc' = "after_loop"
               /\ UNCHANGED << batch_n, result, accepted, sunk, pending >>
          ELSE IF piece.n > 0 /\ IsStopMarker(piece.buf)
          THEN \* line 148: break
               /\ calls' = calls \o << "llama_decode", "llama_sampler_sample",
                                       "llama_token_to_piece" >>
               /\ pc' = "after_loop"
               /\ UNCHANGED << batch_n, result, accepted, sunk, pending >>
          ELSE IF piece.n > 0
          THEN \* lines 151-164: append and forward
               /\ sink = "abort" => pending
               /\ result' = result \o SubSeq(piece.buf, 1, piece.n)
               /\ accepted' = Append(accepted, SubSeq(piece.buf, 1, piece.n))
               /\ sunk' = IF sink \in {"delivered", "raised"}
                          THEN Append(sunk, c_str(piece.buf))
                          ELSE sunk
               /\ pending' = (pending \/ sink \in {"raised", "no_class", "no_method"})
               /\ calls' = calls \o << "llama_decode", "llama_sampler_sample",
                                       "llama_token_to_piece" >>
                                 \o (IF sink \in {"delivered", "raised"}
                                     THEN << "onNativeToken" >> ELSE <<>>)
               /\ pc' = IF sink = "abort" THEN "aborted" ELSE "loop"
               /\ batch_n' = 1
          ELSE \* n <= 0: nothing appended; line 168
               /\ calls' = calls \o << "llama_decode", "llama_sampler_sample",
                                       "llama_token_to_piece" >>
               /\ pc' = "loop"
               /\ batch_n' = 1
               /\ UNCHANGED << result, accepted, sunk, pending >>
    /\ UNCHANGED << g_model, g_vocab, g_ctx, backend, n_prompt, sampler_chain,
                    ret, since_release, last_init >>

\* generate_finish without line 171: the sampler chain is not freed.
generate_finish_no_free(jvm) ==
    /\ \/ pc = "after_loop"
       \/ pc = "loop" /\ ~LoopCond(n_pos, batch_n, n_prompt)
    /\ jvm = "abort" => pending
    /\ calls' = calls \o << "llama_perf_context_print", "NewStringUTF" >>
    /\ IF jvm = "abort"
       THEN pc' = "aborted" /\ UNCHANGED ret
       ELSE /\ pc' = "idle"
            /\ ret' = [NoRet EXCEPT !.op = "generateResponse", !.text = c_str(result)]
    /\ UNCHANGED << session, n_prompt, n_pos, batch_n, result, pending, accepted,
                    sunk, since_release, last_init, sampler_chain >>

\* Lines 171-180: the loop is left (condition false, or a break); the
\* sampler chain is freed and the accumulated text returned as a Java
\* string.  jvm is "abort" when the runtime ends the process at NewStringUTF
\* because an exception is pending.
generate_finish(jvm) ==
    /\ \/ pc = "after_loop"
       \/ pc = "loop" /\ ~LoopCond(n_pos, batch_n, n_prompt)
    /\ jvm = "abort" => pending
    /\ sampler_chain' = FALSE
    /\ calls' = calls \o << "llama_sampler_free", "llama_perf_context_print",
                            "NewStringUTF" >>
    /\ IF jvm = "abort"
       THEN pc' = "aborted" /\ UNCHANGED ret
       ELSE /\ pc' = "idle"
            /\ ret' = [NoRet EXCEPT !.op = "generateResponse", !.text = c_str(result)]
    /\ UNCHANGED << session, n_prompt, n_pos, batch_n, result, pending, accepted,
                    sunk, since_release, last_init >>

\* Line 144: buf[n] = '\0' writes outside char buf[128] (line 141) when n
\* is not one of its indices 0..BufSize-1.
TerminatorOutside(n) == n > BufSize - 1

\* Lines 122-144, when the write of line 144 falls outside buf.  The write
\* is undefined behaviour: either it lands in the bytes next to buf and the
\* iteration goes on, which is loop_iteration, or the process ends there
\* (fault, or the stack protector), which is this action.
loop_iteration_overrun(tok) ==
    /\ pc = "loop"
    /\ LoopCond(n_pos, batch_n, n_prompt)
    /\ DecodeSucceeds(0, g_ctx, batch_n)
    /\ ~llama_vocab_is_eog(tok)
    /\ llama_token_to_piece(tok, BufSize).n > 0
    /\ TerminatorOutside(llama_token_to_piece(tok, BufSize).n)
    /\ heap' = [heap EXCEPT ![g_ctx].kv = @ + batch_n]
    /\ n_pos' = n_pos + batch_n
    /\ calls' = calls \o << "llama_decode", "llama_sampler_sample",
                            "llama_token_to_piece" >>
    /\ pc' = "crashed"
    /\ UNCHANGED << g_model, g_vocab, g_ctx, backend, n_prompt, batch_n, result,
                    sampler_chain, pending, ret, accepted, sunk, since_release,
                    last_init >>

(* --------------------------- the specification ------------------------ *)

\* The answers an iteration reads: no token is sampled after a failed decode,
\* and the JVM is asked for the callback only for a fragment that is
\* appended.  An answer that is not read is not enumerated.
Sampled(rc) == IF rc = 0 THEN Tokens ELSE {1}
Deliveries(tok) ==
    IF ~llama_vocab_is_eog(tok) /\ llama_token_to_piece(tok, BufSize).n > 0
       /\ ~IsStopMarker(llama_token_to_piece(tok, BufSize).buf)
    THEN SinkOutcomes
    ELSE {"delivered"}

Next ==
    \/ \E load_ok \in BOOLEAN, ctx_ok \in BOOLEAN :
           initLlama(load_ok, ctx_ok) /\ UNCHANGED first_text
    \/ releaseLlama /\ UNCHANGED first_text
    \/ generate_not_initialized /\ UNCHANGED first_text
    \/ \E probe \in Probes : \E fill \in Fills(probe) :
           generate_tokenization_failed(probe, fill) /\ UNCHANGED first_text
    \/ \E probe \in Probes : \E fill \in Fills(probe) :
           generate_start(probe, fill) /\ UNCHANGED first_text
    \/ \E rc \in {0, 1} : \E tok \in Sampled(rc) : \E sink \in Deliveries(tok) :
           loop_iteration(rc, tok, sink) /\ UNCHANGED first_text
    \/ \E tok \in Tokens : loop_iteration_overrun(tok) /\ UNCHANGED first_text
    \/ \E jvm \in {"return", "abort"} : generate_finish(jvm) /\ UNCHANGED first_text

Spec == Init /\ [][Next]_vars

(* ------------------- a deterministic (greedy) backend ------------------ *)

\* One backend whose logits are a deterministic function of what the context
\* holds: after a decode that leaves held tokens in the context, the greedy
\* sampler (lines 108, 135) picks the token Greedy(held).
Greedy(held) == (held % Len(Vocab)) + 1

\* The first text returned on each prompt is remembered when generateResponse
\* returns.
Remember(f, prompt, text) ==
    IF f[prompt].seen THEN f
    ELSE [f EXCEPT ![prompt] = [seen |-> TRUE, text |-> text]]

\* The same entry points against that backend: tokenization is a function of
\* the prompt (a prompt is told by its token count; the empty encoding is the
\* one failure), llama_decode fails only for lack of room, the sampler picks
\* Greedy of the context, and every delivery to the sink succeeds.  Greedy
\* picks no token whose piece fills the fragment buffer, so no iteration
\* overruns it.
NextGreedy ==
    \/ \E load_ok \in BOOLEAN, ctx_ok \in BOOLEAN :
           initLlama(load_ok, ctx_ok) /\ first_text' = NoFirst
    \/ releaseLlama /\ first_text' = NoFirst
    \/ generate_not_initialized /\ UNCHANGED first_text
    \/ generate_tokenization_failed(0, 0) /\ UNCHANGED first_text
    \/ \E probe \in Probes \ {0} :
           generate_start(probe, 0 - probe) /\ UNCHANGED first_text
    \/ /\ pc = "loop"
       /\ loop_iteration(0, Greedy(heap[g_ctx].kv + batch_n), "delivered")
       /\ UNCHANGED first_text
    \/ /\ generate_finish("return")
       /\ first_text' = Remember(first_text, n_prompt, c_str(result))

SpecGreedy == Init /\ [][NextGreedy]_vars

(* ------------------------------- claims ------------------------------- *)

Made(call) == \E i \in 1..Len(calls) : calls[i] = call

DecodeCalls ==
    Cardinality({i \in 1..Len(calls) :
                    calls[i] \in {"llama_decode", "llama_decode failed"}})

\* generateResponse has returned (this is the last finished call).
Returned == pc = "idle" /\ ret.op = "generateResponse"
ReturnedText == Returned /\ ret.msg = ""

\* C1: while there has been no successful initLlama since the start or since
\* the last releaseLlama, generateResponse never enters its loop, and when it
\* returns it returns "Model not initialized" having made no tokenize,
\* decode, sample or callback call.
C1_NotInitializedSentinel ==
    ~since_release =>
        /\ pc = "idle"
        /\ ret.op = "generateResponse" =>
              /\ ret.msg = "Model not initialized"
              /\ ~Made("llama_tokenize")
              /\ ~Made("llama_decode") /\ ~Made("llama_decode failed")
              /\ ~Made("llama_sampler_sample")
              /\ ~Made("onNativeToken")
              /\ accepted = <<>> /\ sunk = <<>>

\* C1's case: generateResponse has returned on a session that was
\* initialized once and then released.
C1_Witness ==
    /\ Returned /\ ~since_release
    /\ last_init = "Success" /\ backend = "down"

\* C2 (as claimed): after initLlama reported a failure, and until the next
\* successful initLlama, generateResponse does not generate: it returns
\* "Model not initialized".
C2_FailedInitNotReady ==
    last_init \in {"ModelLoadFailed", "ContextCreateFailed"} =>
        /\ pc = "idle"
        /\ ret.op = "generateResponse" => ret.msg = "Model not initialized"

\* C3 (as claimed): at most one model and at most one context are allocated
\* and not freed, and none is once releaseLlama has returned.
C3_OneModelOneContext ==
    /\ Cardinality(LiveModels) <= 1
    /\ Cardinality(LiveCtxs) <= 1
    /\ (pc = "idle" /\ ret.op = "releaseLlama") => LiveModels = {} /\ LiveCtxs = {}

\* C4 (as claimed): releaseLlama on a session that holds no context and no
\* model, with no backend init outstanding, changes nothing and makes no
\* backend call (in particular no llama_backend_free).
C4_ReleaseIsNoOp ==
    [][ ( /\ pc = "idle" /\ ret'.op = "releaseLlama"
          /\ g_ctx = nullptr /\ g_model = nullptr /\ backend = "down" )
        => ( /\ calls' = <<>>
             /\ << g_model, g_vocab, g_ctx, heap, backend >>'
                  = << g_model, g_vocab, g_ctx, heap, backend >> ) ]_vars

\* C5: a generateResponse call that returns "Model not initialized" or
\* "Tokenization failed" leaves the three handles, every llama object
\* (so each context's KV cache) and the backend as they were, has made no
\* decode call, leaves no sampler chain allocated and has not called the
\* sink.
C5_SentinelLeavesStateUnchanged ==
    [][ ( /\ pc = "idle"
          /\ ret'.op = "generateResponse"
          /\ ret'.msg \in {"Model not initialized", "Tokenization failed"} )
        => ( /\ << g_model, g_vocab, g_ctx, heap, backend >>'
                  = << g_model, g_vocab, g_ctx, heap, backend >>
             /\ \A i \in 1..Len(calls') :
                    calls'[i] \notin {"llama_decode", "llama_decode failed",
                                     "llama_sampler_chain_init", "onNativeToken"}
             /\ ~sampler_chain'
             /\ sunk' = <<>> ) ]_vars

\* C5's case: on an initialized session, tokenization failed at the second
\* (fill) call and the sentinel was returned.
C5_Witness ==
    /\ Returned /\ ret.msg = "Tokenization failed"
    /\ g_ctx # nullptr /\ Len(calls) = 3

\* C6: in a generateResponse call with a prompt of n_prompt >= 1 tokens, at
\* most n_predict fragments are accepted and at most n_prompt + n_predict
\* decode calls are made, whatever the backend samples.
C6_BoundedGeneration ==
    (pc \in {"loop", "after_loop"} \/ ReturnedText) =>
        /\ n_prompt >= 1
        /\ Len(accepted) <= n_predict
        /\ DecodeCalls <= n_prompt + n_predict

\* C6's case: a call returned after accepting n_predict fragments.
C6_Witness == ReturnedText /\ Len(accepted) = n_predict /\ DecodeCalls = n_predict

\* C7 (as claimed): when generateResponse returns after a failed decode, the
\* failed decode is the last backend call of the loop and the returned text
\* is exactly the text accumulated until then.
C7_DecodeFailureReturnsAccumulated ==
    (ReturnedText /\ Made("llama_decode failed")) =>
        /\ ret.text = Concat(accepted)
        /\ ret.text = result
        /\ calls[Len(calls) - 3] = "llama_decode failed"

\* C8 (as claimed): when generateResponse returns without a decode failure,
\* the sink was called once per accepted fragment and the concatenation of
\* what it was given is the returned text.
C8_SinkMatchesReturnedText ==
    (ReturnedText /\ ~Made("llama_decode failed")) =>
        /\ Len(sunk) = Len(accepted)
        /\ Concat(sunk) = ret.text

\* C9 (as claimed): the text generateResponse returns never contains the
\* stop marker.
C9_NoMarkerInReturnedText ==
    ReturnedText => ~Contains(ret.text, Marker)

\* C10 (as claimed): a sink failure leaves no exception pending and never
\* ends the process.
C10_SinkFailureContained ==
    ~pending /\ pc # "aborted"

\* The session is Ready: the most recent initLlama succeeded and there has
\* been no releaseLlama since.
Ready == since_release /\ last_init = "Success"

\* C11: releaseLlama on a Ready session frees the context, then the model,
\* then shuts the backend down, and leaves the three handles null and both
\* objects freed; a successful initLlama acquires in the reverse order
\* (backend init, model, context).
C11_ReleaseOrder ==
    [][ /\ ( /\ pc = "idle" /\ ret'.op = "releaseLlama" /\ Ready )
           => ( /\ calls' = << "llama_free", "llama_model_free", "llama_backend_free" >>
                /\ g_ctx' = nullptr /\ g_model' = nullptr /\ g_vocab' = nullptr
                /\ ~heap'[g_ctx].live /\ ~heap'[g_model].live
                /\ backend' = "down" )
        /\ ( /\ pc = "idle" /\ ret'.op = "initLlama" /\ ret'.code = 0 )
           => SubSeq(calls', 1, 3) = << "llama_backend_init",
                                        "llama_model_load_from_file",
                                        "llama_init_from_model" >> ]_vars

\* C11's case: a Ready session has just been released.
C11_Witness ==
    /\ pc = "idle" /\ ret.op = "releaseLlama"
    /\ last_init = "Success"
    /\ Made("llama_free") /\ Made("llama_model_free")

\* C12 (as claimed): with the greedy sampler and a backend whose logits are a
\* function of the context, every generateResponse call returns the text
\* that the first call on the same prompt returned since the session was
\* initialized.
C12_SamePromptSameText ==
    (ReturnedText /\ first_text[n_prompt].seen) =>
        ret.text = first_text[n_prompt].text

\* The number of tokens the Context behind g_ctx holds.
Held == heap[g_ctx].kv

\* C13 (as claimed): at every step of the generation loop of every
\* generateResponse call, n_pos equals the number of tokens the Context holds,
\* and that number exceeds neither n_prompt + n_predict of the call nor n_ctx.
C13_PositionIsContextSize ==
    pc \in {"loop", "after_loop"} =>
        /\ n_pos = Held
        /\ Held <= n_prompt + n_predict
        /\ Held <= n_ctx

\* C14 (as claimed): whenever generateResponse is about to call llama_decode
\* (line 124), the batch holds at most n_batch tokens, and after the first
\* decode of the call it holds exactly one token.
C14_BatchWithinBatchSize ==
    (pc = "loop" /\ LoopCond(n_pos, batch_n, n_prompt)) =>
        /\ batch_n <= n_batch
        /\ n_pos > 0 => batch_n = 1

\* The fragment of tok is the marker or begins with it.
BeginsWithMarker(tok) ==
    /\ Len(Vocab[tok].piece) >= Len(Marker)
    /\ SubSeq(Vocab[tok].piece, 1, Len(Marker)) = Marker

\* C15: an iteration whose decode succeeded and whose sampled token is an
\* end-of-generation token, or has a fragment that is the stop marker or
\* begins with it, leaves the loop at that step with nothing appended to
\* result and nothing delivered to the sink; and once the loop is left, the
\* call makes only the calls of its epilogue (no decode, sample or sink call).
C15_StopTokenEndsLoop ==
    [][ /\ \A tok \in Tokens : \A sink \in SinkOutcomes :
              ( /\ pc = "loop"
                /\ llama_vocab_is_eog(tok) \/ BeginsWithMarker(tok)
                /\ DecodeSucceeds(0, g_ctx, batch_n)
                /\ loop_iteration(0, tok, sink) )
              => ( /\ pc' # "loop"
                   /\ result' = result
                   /\ accepted' = accepted
                   /\ sunk' = sunk
                   /\ calls'[Len(calls')] # "onNativeToken" )
        /\ pc = "after_loop"
              => ( /\ pc' \in {"idle", "aborted"}
                   /\ calls' = calls \o << "llama_sampler_free",
                                           "llama_perf_context_print",
                                           "NewStringUTF" >>
                   /\ sunk' = sunk /\ accepted' = accepted ) ]_vars

\* The loop was left on a stop marker after a fragment had been delivered.
C15_Witness ==
    /\ pc = "after_loop"
    /\ Len(sunk) > 0
    /\ calls[Len(calls)] = "llama_token_to_piece"

\* How many times the current / last call made a given call.
Count(call) == Cardinality({i \in 1..Len(calls) : calls[i] = call})

\* C16: between calls no sampler chain is allocated; a generateResponse call
\* that returned text created one sampler chain and freed it once, as its
\* first call after the loop's last; a call that returned a sentinel created
\* none; and a chain is allocated exactly while a call is in or just past
\* its loop.
C16_SamplerChainFreedOnce ==
    /\ pc = "idle" => ~sampler_chain
    /\ pc \in {"loop", "after_loop"} =>
           /\ sampler_chain
           /\ Count("llama_sampler_chain_init") = 1
           /\ Count("llama_sampler_free") = 0
    /\ ReturnedText =>
           /\ Count("llama_sampler_chain_init") = 1
           /\ Count("llama_sampler_free") = 1
           /\ calls[Len(calls) - 2] = "llama_sampler_free"
    /\ (Returned /\ ret.msg # "") =>
           /\ Count("llama_sampler_chain_init") = 0
           /\ Count("llama_sampler_free") = 0

\* generateResponse returned after leaving its loop on a decode failure.
C16_Witness ==
    /\ ReturnedText
    /\ Made("llama_decode failed")
    /\ Len(accepted) > 0
    /\ ~sampler_chain

FreedModels == {p \in 1..Len(heap) : heap[p].kind = "model" /\ ~heap[p].live}

\* C17: in every reachable state, every context that is allocated was
\* created from a model that is still allocated (a model is freed only when
\* no context created from it is left).
C17_ModelOutlivesContext ==
    \A c \in LiveCtxs : heap[c].model \in LiveModels

\* A context is allocated while an earlier session's model has been freed.
C17_Witness == LiveCtxs # {} /\ FreedModels # {}

\* C18: whenever the check of line 77 passes (g_ctx and g_vocab both set),
\* g_ctx is an allocated context, g_vocab belongs to an allocated model, and
\* that model is the one the context was created from.
C18_CheckedHandlesAreLive ==
    ~NotInitialized(g_ctx, g_vocab) =>
        /\ g_ctx \in LiveCtxs
        /\ g_vocab \in LiveModels
        /\ heap[g_ctx].model = g_vocab

\* generateResponse is in its loop on the handles an earlier successful
\* initLlama left, after a later initLlama failed to load and a model had
\* been freed before.
C18_Witness ==
    /\ pc = "loop"
    /\ g_model = nullptr
    /\ FreedModels # {}

\* C19 (as claimed): an initLlama that returns -2 has freed the model it
\* loaded and leaves g_model, g_vocab and g_ctx null; an initLlama that
\* returns -1 on a session with no successful initLlama since the start or
\* the last releaseLlama leaves all three null; either leaves the backend
\* initialized, and only releaseLlama shuts the backend down.
C19_FailedInitClearsHandles ==
    [][ /\ (ret'.op = "initLlama" /\ ret'.code = -2) =>
               /\ g_model' = nullptr /\ g_vocab' = nullptr /\ g_ctx' = nullptr
               /\ Len(heap') = Len(heap) + 1
               /\ heap'[Len(heap')].kind = "model"
               /\ ~heap'[Len(heap')].live
               /\ backend' = "up"
        /\ (ret'.op = "initLlama" /\ ret'.code = -1 /\ ~since_release) =>
               /\ g_model' = nullptr /\ g_vocab' = nullptr /\ g_ctx' = nullptr
               /\ backend' = "up"
        /\ (backend = "up" /\ backend' = "down") => ret'.op = "releaseLlama"
      ]_vars

\* C20 (as claimed): in every iteration that reaches line 144 (the decode
\* succeeded, the sampled token is not end-of-generation and
\* llama_token_to_piece returned n > 0 for the buffer of BufSize bytes), the
\* terminator is written at an index of that buffer: n <= BufSize - 1.
C20_TerminatorInsideBuffer ==
    [][ \A tok \in Tokens :
          ( /\ pc = "loop"
            /\ DecodeSucceeds(0, g_ctx, batch_n)
            /\ ~llama_vocab_is_eog(tok)
            /\ llama_token_to_piece(tok, BufSize).n > 0
            /\ \/ \E sink \in SinkOutcomes : loop_iteration(0, tok, sink)
               \/ loop_iteration_overrun(tok) )
          => llama_token_to_piece(tok, BufSize).n <= BufSize - 1 ]_vars

====
